---- MODULE Spec2Model ----
(***************************************************************************)
(* A model of the 6502 interpreter core of src/src/cpu.rs: the CPU record  *)
(* (registers, status byte, program counter, 64 KiB memory), the           *)
(* addressing-mode resolver, the instruction handlers and the dispatch     *)
(* loop of CPU::run, driven by a host that loads a program, resets, pokes  *)
(* registers and memory and then runs, as the tests of cpu.rs do.          *)
(*                                                                         *)
(* Memory is [u8; 0x10000] initialised to zero.  It is kept as a function  *)
(* on the set of addresses that hold a non-zero byte; every other address  *)
(* reads as 0 (mem_read).  Two memories are equal as arrays iff they are   *)
(* equal as such functions.                                                *)
(*                                                                         *)
(* `+` on u16 (cpu.rs lines 159, 167, 262, 289) panics on overflow when    *)
(* the build has overflow checks (debug profile) and wraps when it has     *)
(* not (release profile): both outcomes are kept (add_u16).                *)
(***************************************************************************)
EXTENDS Integers, Sequences, FiniteSets, TLC

(***************************************************************************)
(* Status register bits, cpu.rs lines 16-23.                               *)
(***************************************************************************)
STATUS_CARRY == 1
STATUS_ZERO == 2
STATUS_INTERRUPT_DISABLE == 4
STATUS_DECIMAL_MODE == 8
STATUS_BREAK == 16
STATUS_BREAK2 == 32
STATUS_OVERFLOW == 64
STATUS_NEGATIVE == 128

(***************************************************************************)
(* Fixed addresses of CPU::load and CPU::reset.                            *)
(***************************************************************************)
LOAD_ADDRESS == 32768
RESET_VECTOR == 65532

U8_MAX == 255
U16_MAX == 65535

Byte == 0 .. U8_MAX
Word == 0 .. U16_MAX

(***************************************************************************)
(* Rust's bitwise operators on unsigned integers.                          *)
(***************************************************************************)
RECURSIVE BitAnd(_, _)
BitAnd(a, b) ==
    IF a = 0 \/ b = 0 THEN 0
    ELSE (a % 2) * (b % 2) + 2 * BitAnd(a \div 2, b \div 2)

RECURSIVE BitOr(_, _)
BitOr(a, b) ==
    IF a = 0 THEN b
    ELSE IF b = 0 THEN a
    ELSE (IF a % 2 = 1 \/ b % 2 = 1 THEN 1 ELSE 0) + 2 * BitOr(a \div 2, b \div 2)

RECURSIVE BitXor(_, _)
BitXor(a, b) ==
    IF a = 0 THEN b
    ELSE IF b = 0 THEN a
    ELSE ((a + b) % 2) + 2 * BitXor(a \div 2, b \div 2)

\* !x on u8
BitNot8(a) == U8_MAX - a

\* u8::wrapping_add
wrapping_add_u8(a, b) == (a + b) % (U8_MAX + 1)

\* u16::wrapping_add
wrapping_add_u16(a, b) == (a + b) % (U16_MAX + 1)

\* u8::overflowing_add: the wrapped sum and whether it overflowed
overflowing_add(a, b) ==
    [val |-> (a + b) % (U8_MAX + 1), overflow |-> a + b > U8_MAX]

(***************************************************************************)
(* Outcomes that are not addresses: the two panics a resolution can end    *)
(* in.  Addresses are 0 .. 65535, so negative numbers are free.            *)
(***************************************************************************)
OverflowPanic == 0 - 1
UnsupportedPanic == 0 - 2

\* `a + b` on u16: the sum, or on overflow the panic of a checked build and
\* the wrapped sum of an unchecked one.
add_u16(a, b) ==
    IF a + b <= U16_MAX THEN {a + b}
    ELSE {OverflowPanic, (a + b) % (U16_MAX + 1)}

(***************************************************************************)
(* Memory.                                                                 *)
(***************************************************************************)
ZeroMemory == [a \in {} |-> 0]

mem_read(memory, addr) == IF addr \in DOMAIN memory THEN memory[addr] ELSE 0

mem_write(memory, addr, data) ==
    IF data = 0
    THEN [a \in DOMAIN memory \ {addr} |-> memory[a]]
    ELSE [a \in DOMAIN memory \cup {addr} |->
            IF a = addr THEN data ELSE memory[a]]

\* The set of outcomes of mem_read_u16: words, or OverflowPanic from pos + 1.
mem_read_u16(memory, pos) ==
    { IF p1 = OverflowPanic THEN OverflowPanic
      ELSE LET lo == mem_read(memory, pos)
               hi == mem_read(memory, p1)
           IN  BitOr(hi * 256, lo)
      : p1 \in add_u16(pos, 1) }

\* The set of outcomes of mem_write_u16: a panic leaves the low byte written.
mem_write_u16(memory, pos, data) ==
    LET hi == data \div 256
        lo == BitAnd(data, 255)
        m1 == mem_write(memory, pos, lo)
    IN  { IF p1 = OverflowPanic THEN [memory |-> m1, panic |-> TRUE]
          ELSE [memory |-> mem_write(m1, p1, hi), panic |-> FALSE]
          : p1 \in add_u16(pos, 1) }

(***************************************************************************)
(* The CPU record: the fields of struct CPU.                               *)
(***************************************************************************)
new ==
    [register_a |-> 0, register_x |-> 0, register_y |-> 0, status |-> 0,
     program_counter |-> 0, memory |-> ZeroMemory]

(***************************************************************************)
(* enum AddressingMode.                                                    *)
(***************************************************************************)
AddressingMode ==
    {"Immediate", "ZeroPage", "ZeroPage_X", "ZeroPage_Y", "Absolute",
     "Absolute_X", "Absolute_Y", "Indirect_X", "Indirect_Y",
     "NoneAddressing", "Relative"}

(***************************************************************************)
(* The opcode metadata table (crate::opcodes::OPCODES_MAP), which run      *)
(* consults for the addressing mode and the length of an instruction.      *)
(* The table's file is not among the sources; the entries below are the    *)
(* ones of the 6502 for the opcode bytes that run handles, and three       *)
(* recognised bytes that run has no handler for.                           *)
(***************************************************************************)
OpCode(mnemonic, len, mode) == [mnemonic |-> mnemonic, len |-> len, mode |-> mode]

OPCODES_MAP ==
    (0   :> OpCode("BRK", 1, "NoneAddressing")) @@  \* 0x00
    (170 :> OpCode("TAX", 1, "NoneAddressing")) @@  \* 0xaa
    (232 :> OpCode("INX", 1, "NoneAddressing")) @@  \* 0xe8
    (169 :> OpCode("LDA", 2, "Immediate")) @@       \* 0xa9
    (165 :> OpCode("LDA", 2, "ZeroPage")) @@        \* 0xa5
    (181 :> OpCode("LDA", 2, "ZeroPage_X")) @@      \* 0xb5
    (173 :> OpCode("LDA", 3, "Absolute")) @@        \* 0xad
    (189 :> OpCode("LDA", 3, "Absolute_X")) @@      \* 0xbd
    (185 :> OpCode("LDA", 3, "Absolute_Y")) @@      \* 0xb9
    (161 :> OpCode("LDA", 2, "Indirect_X")) @@      \* 0xa1
    (177 :> OpCode("LDA", 2, "Indirect_Y")) @@      \* 0xb1
    (133 :> OpCode("STA", 2, "ZeroPage")) @@        \* 0x85
    (149 :> OpCode("STA", 2, "ZeroPage_X")) @@      \* 0x95
    (141 :> OpCode("STA", 3, "Absolute")) @@        \* 0x8d
    (157 :> OpCode("STA", 3, "Absolute_X")) @@      \* 0x9d
    (153 :> OpCode("STA", 3, "Absolute_Y")) @@      \* 0x99
    (129 :> OpCode("STA", 2, "Indirect_X")) @@      \* 0x81
    (145 :> OpCode("STA", 2, "Indirect_Y")) @@      \* 0x91
    (105 :> OpCode("ADC", 2, "Immediate")) @@       \* 0x69
    (101 :> OpCode("ADC", 2, "ZeroPage")) @@        \* 0x65
    (117 :> OpCode("ADC", 2, "ZeroPage_X")) @@      \* 0x75
    (109 :> OpCode("ADC", 3, "Absolute")) @@        \* 0x6d
    (125 :> OpCode("ADC", 3, "Absolute_X")) @@      \* 0x7d
    (121 :> OpCode("ADC", 3, "Absolute_Y")) @@      \* 0x79
    (97  :> OpCode("ADC", 2, "Indirect_X")) @@      \* 0x61
    (113 :> OpCode("ADC", 2, "Indirect_Y")) @@      \* 0x71
    (234 :> OpCode("NOP", 1, "NoneAddressing")) @@  \* 0xea
    (200 :> OpCode("INY", 1, "NoneAddressing")) @@  \* 0xc8
    (16  :> OpCode("BPL", 2, "Relative"))           \* 0x10

(***************************************************************************)
(* The arms of the match in CPU::run.                                      *)
(***************************************************************************)
LdaCodes == {169, 165, 181, 173, 189, 185, 161, 177}
StaCodes == {133, 149, 141, 157, 153, 129, 145}
AdcCodes == {105, 101, 117, 109, 125, 121, 97, 113}
TaxCode == 170
InxCode == 232
BrkCode == 0
HandledCodes == LdaCodes \cup StaCodes \cup AdcCodes \cup {TaxCode, InxCode}

(***************************************************************************)
(* CPU::get_operand_address: the set of outcomes, each an address or a     *)
(* panic.  self.program_counter is the address of the operand: run has     *)
(* stepped over the opcode byte.  The arms of its match that compute come  *)
(* first, each under the name of its variant.                              *)
(***************************************************************************)

\* ZeroPage_X with a slip: the sum taken in 16 bits.
ZeroPage_X_promoted(cpu) ==
    LET pos == mem_read(cpu.memory, cpu.program_counter)
    IN  {pos + cpu.register_x}

ZeroPage_X(cpu) ==
    LET pos == mem_read(cpu.memory, cpu.program_counter)
    IN  {wrapping_add_u8(pos, cpu.register_x)}

ZeroPage_Y(cpu) ==
    LET pos == mem_read(cpu.memory, cpu.program_counter)
    IN  {wrapping_add_u8(pos, cpu.register_y)}

Absolute_X(cpu) ==
    { IF base = OverflowPanic THEN OverflowPanic
      ELSE wrapping_add_u16(base, cpu.register_x)
      : base \in mem_read_u16(cpu.memory, cpu.program_counter) }

Absolute_Y(cpu) ==
    { IF base = OverflowPanic THEN OverflowPanic
      ELSE wrapping_add_u16(base, cpu.register_y)
      : base \in mem_read_u16(cpu.memory, cpu.program_counter) }

\* Indirect_X with a slip: the high byte read at ptr + 1 taken in 16 bits.
Indirect_X_high_byte_past_page(cpu) ==
    LET base == mem_read(cpu.memory, cpu.program_counter)
        ptr  == wrapping_add_u8(base, cpu.register_x)
        lo   == mem_read(cpu.memory, ptr)
        hi   == mem_read(cpu.memory, ptr + 1)
    IN  {BitOr(hi * 256, lo)}

Indirect_X(cpu) ==
    LET base == mem_read(cpu.memory, cpu.program_counter)
        ptr  == wrapping_add_u8(base, cpu.register_x)
        lo   == mem_read(cpu.memory, ptr)
        hi   == mem_read(cpu.memory, wrapping_add_u8(ptr, 1))
    IN  {BitOr(hi * 256, lo)}

\* Indirect_Y with a slip: register_y added to the pointer, before the
\* dereference, as Indirect_X does with register_x.
Indirect_Y_indexed_pointer(cpu) ==
    LET base == mem_read(cpu.memory, cpu.program_counter)
        ptr  == wrapping_add_u8(base, cpu.register_y)
        lo   == mem_read(cpu.memory, ptr)
        hi   == mem_read(cpu.memory, wrapping_add_u8(ptr, 1))
    IN  {BitOr(hi * 256, lo)}

Indirect_Y(cpu) ==
    LET base == mem_read(cpu.memory, cpu.program_counter)
        lo   == mem_read(cpu.memory, base)
        hi   == mem_read(cpu.memory, wrapping_add_u8(base, 1))
        deref_base == BitOr(hi * 256, lo)
        deref == wrapping_add_u16(deref_base, cpu.register_y)
    IN  {deref}

get_operand_address(cpu, mode) ==
    CASE mode = "Immediate" -> {cpu.program_counter}
      [] mode = "ZeroPage" -> {mem_read(cpu.memory, cpu.program_counter)}
      [] mode = "Absolute" -> mem_read_u16(cpu.memory, cpu.program_counter)
      [] mode = "ZeroPage_X" -> ZeroPage_X(cpu)
      [] mode = "ZeroPage_Y" -> ZeroPage_Y(cpu)
      [] mode = "Absolute_X" -> Absolute_X(cpu)
      [] mode = "Absolute_Y" -> Absolute_Y(cpu)
      [] mode = "Indirect_X" -> Indirect_X(cpu)
      [] mode = "Indirect_Y" -> Indirect_Y(cpu)
      [] mode = "NoneAddressing" -> {UnsupportedPanic}
      [] mode = "Relative" -> {UnsupportedPanic}

\* update_zero_and_negative_flags with a slip: Zero cleared with
\* `status & STATUS_ZERO` for `status & !STATUS_ZERO`.
update_zero_and_negative_flags_bad_mask(status, result) ==
    LET s1 == IF result = 0
              THEN BitOr(status, STATUS_ZERO)
              ELSE BitAnd(status, STATUS_ZERO)
    IN  IF BitAnd(result, STATUS_NEGATIVE) # 0
        THEN BitOr(s1, STATUS_NEGATIVE)
        ELSE BitAnd(s1, 127)

(***************************************************************************)
(* CPU::update_zero_and_negative_flags: the new status byte.               *)
(***************************************************************************)
update_zero_and_negative_flags(status, result) ==
    LET s1 == IF result = 0
              THEN BitOr(status, STATUS_ZERO)
              ELSE BitAnd(status, BitNot8(STATUS_ZERO))
    IN  IF BitAnd(result, STATUS_NEGATIVE) # 0
        THEN BitOr(s1, STATUS_NEGATIVE)
        ELSE BitAnd(s1, 127)

(***************************************************************************)
(* The handlers.  Each gives the set of its outcomes                       *)
(* [cpu, addr, panic]: the CPU record it leaves, the operand address it    *)
(* resolved (NoAddress when it resolves none) and the panic it ended in    *)
(* ("" when it returned).  A handler that panics does so while resolving,  *)
(* before it has assigned anything.                                        *)
(***************************************************************************)
NoAddress == 0 - 3

PanicName(addr) ==
    IF addr = OverflowPanic THEN "ArithmeticOverflow"
    ELSE IF addr = UnsupportedPanic THEN "UnsupportedAddressingMode"
    ELSE ""

Outcome(cpu, addr, panic) == [cpu |-> cpu, addr |-> addr, panic |-> panic]

\* lda with a slip: the flags updated before the accumulator is assigned.
lda_flags_of_old_accumulator(cpu, mode) ==
    { IF addr < 0 THEN Outcome(cpu, addr, PanicName(addr))
      ELSE LET value == mem_read(cpu.memory, addr)
               c1 == [cpu EXCEPT !.status =
                        update_zero_and_negative_flags(cpu.status, cpu.register_a)]
           IN  Outcome([c1 EXCEPT !.register_a = value], addr, "")
      : addr \in get_operand_address(cpu, mode) }

lda(cpu, mode) ==
    { IF addr < 0 THEN Outcome(cpu, addr, PanicName(addr))
      ELSE LET value == mem_read(cpu.memory, addr)
               c1 == [cpu EXCEPT !.register_a = value]
           IN  Outcome([c1 EXCEPT !.status =
                          update_zero_and_negative_flags(c1.status, c1.register_a)],
                       addr, "")
      : addr \in get_operand_address(cpu, mode) }

\* sta with a slip: the flags updated from the stored value, as a load
\* would.
sta_updates_flags(cpu, mode) ==
    { IF addr < 0 THEN Outcome(cpu, addr, PanicName(addr))
      ELSE LET value == cpu.register_a
           IN  Outcome([cpu EXCEPT !.memory = mem_write(cpu.memory, addr, value),
                                   !.status = update_zero_and_negative_flags(cpu.status, value)],
                       addr, "")
      : addr \in get_operand_address(cpu, mode) }

\* sta with a slip: the program area treated as read-only, a store into it
\* dropped.
sta_program_area_read_only(cpu, mode) ==
    { IF addr < 0 THEN Outcome(cpu, addr, PanicName(addr))
      ELSE LET value == cpu.register_a
           IN  Outcome(IF addr >= LOAD_ADDRESS THEN cpu
                       ELSE [cpu EXCEPT !.memory = mem_write(cpu.memory, addr, value)],
                       addr, "")
      : addr \in get_operand_address(cpu, mode) }

sta(cpu, mode) ==
    { IF addr < 0 THEN Outcome(cpu, addr, PanicName(addr))
      ELSE LET value == cpu.register_a
           IN  Outcome([cpu EXCEPT !.memory = mem_write(cpu.memory, addr, value)],
                       addr, "")
      : addr \in get_operand_address(cpu, mode) }

\* adc with a slip: Carry taken from the second addition alone, the
\* overflow of operand + carry forgotten.
adc_carry_of_second_addition(cpu, mode) ==
    { IF addr < 0 THEN Outcome(cpu, addr, PanicName(addr))
      ELSE LET value == mem_read(cpu.memory, addr)
               carry_flag == BitAnd(cpu.status, STATUS_CARRY)
               r1 == overflowing_add(value, carry_flag)
               r2 == overflowing_add(cpu.register_a, r1.val)
               result == r2.val
               s1 == IF r2.overflow
                     THEN BitOr(cpu.status, STATUS_CARRY)
                     ELSE BitAnd(cpu.status, BitNot8(STATUS_CARRY))
               s2 == IF BitAnd(BitAnd(BitXor(result, value),
                                      BitXor(result, cpu.register_a)),
                               STATUS_NEGATIVE) # 0
                     THEN BitOr(s1, STATUS_OVERFLOW)
                     ELSE BitAnd(s1, BitNot8(STATUS_OVERFLOW))
           IN  Outcome([cpu EXCEPT !.register_a = result,
                                   !.status = update_zero_and_negative_flags(s2, result)],
                       addr, "")
      : addr \in get_operand_address(cpu, mode) }

\* adc with a slip: Overflow left alone when the signs do not call for it,
\* instead of cleared.
adc_overflow_never_cleared(cpu, mode) ==
    { IF addr < 0 THEN Outcome(cpu, addr, PanicName(addr))
      ELSE LET value == mem_read(cpu.memory, addr)
               carry_flag == BitAnd(cpu.status, STATUS_CARRY)
               r1 == overflowing_add(value, carry_flag)
               r2 == overflowing_add(cpu.register_a, r1.val)
               result == r2.val
               s1 == IF r1.overflow \/ r2.overflow
                     THEN BitOr(cpu.status, STATUS_CARRY)
                     ELSE BitAnd(cpu.status, BitNot8(STATUS_CARRY))
               s2 == IF BitAnd(BitAnd(BitXor(result, value),
                                      BitXor(result, cpu.register_a)),
                               STATUS_NEGATIVE) # 0
                     THEN BitOr(s1, STATUS_OVERFLOW)
                     ELSE s1
           IN  Outcome([cpu EXCEPT !.register_a = result,
                                   !.status = update_zero_and_negative_flags(s2, result)],
                       addr, "")
      : addr \in get_operand_address(cpu, mode) }

adc(cpu, mode) ==
    { IF addr < 0 THEN Outcome(cpu, addr, PanicName(addr))
      ELSE LET value == mem_read(cpu.memory, addr)
               carry_flag == BitAnd(cpu.status, STATUS_CARRY)
               r1 == overflowing_add(value, carry_flag)
               r2 == overflowing_add(cpu.register_a, r1.val)
               result == r2.val
               s1 == IF r1.overflow \/ r2.overflow
                     THEN BitOr(cpu.status, STATUS_CARRY)
                     ELSE BitAnd(cpu.status, BitNot8(STATUS_CARRY))
               s2 == IF BitAnd(BitAnd(BitXor(result, value),
                                      BitXor(result, cpu.register_a)),
                               STATUS_NEGATIVE) # 0
                     THEN BitOr(s1, STATUS_OVERFLOW)
                     ELSE BitAnd(s1, BitNot8(STATUS_OVERFLOW))
           IN  Outcome([cpu EXCEPT !.register_a = result,
                                   !.status = update_zero_and_negative_flags(s2, result)],
                       addr, "")
      : addr \in get_operand_address(cpu, mode) }

\* tax with a slip: the transfer made the other way round.
tax_from_x(cpu) ==
    LET c1 == [cpu EXCEPT !.register_a = cpu.register_x]
    IN  {Outcome([c1 EXCEPT !.status =
                    update_zero_and_negative_flags(c1.status, c1.register_x)],
                 NoAddress, "")}

tax(cpu) ==
    LET c1 == [cpu EXCEPT !.register_x = cpu.register_a]
    IN  {Outcome([c1 EXCEPT !.status =
                    update_zero_and_negative_flags(c1.status, c1.register_x)],
                 NoAddress, "")}

\* inx with a slip: a saturating increment for the wrapping one.
inx_saturating(cpu) ==
    LET c1 == [cpu EXCEPT !.register_x =
                 IF cpu.register_x = U8_MAX THEN U8_MAX ELSE cpu.register_x + 1]
    IN  {Outcome([c1 EXCEPT !.status =
                    update_zero_and_negative_flags(c1.status, c1.register_x)],
                 NoAddress, "")}

inx(cpu) ==
    LET c1 == [cpu EXCEPT !.register_x = wrapping_add_u8(cpu.register_x, 1)]
    IN  {Outcome([c1 EXCEPT !.status =
                    update_zero_and_negative_flags(c1.status, c1.register_x)],
                 NoAddress, "")}

(***************************************************************************)
(* CPU::load: copy_from_slice into memory[0x8000 .. 0x8000 + len], which   *)
(* panics when the range ends past the array, then the reset vector.       *)
(***************************************************************************)
copy_from_slice(memory, start, program) ==
    LET written == start .. (start + Len(program) - 1)
        nonzero == {a \in written : program[a - start + 1] # 0}
    IN  [a \in (DOMAIN memory \ written) \cup nonzero |->
            IF a \in written THEN program[a - start + 1] ELSE memory[a]]

\* load with a slip: the reset vector written first and the program copied
\* over it.
load_vector_before_copy(cpu, program) ==
    IF LOAD_ADDRESS + Len(program) > U16_MAX + 1
    THEN {[cpu |-> cpu, panic |-> "SliceIndexOutOfRange"]}
    ELSE { [cpu |-> [cpu EXCEPT !.memory =
                        copy_from_slice(w.memory, LOAD_ADDRESS, program)],
            panic |-> IF w.panic THEN "ArithmeticOverflow" ELSE ""]
           : w \in mem_write_u16(cpu.memory, RESET_VECTOR, LOAD_ADDRESS) }

load(cpu, program) ==
    IF LOAD_ADDRESS + Len(program) > U16_MAX + 1
    THEN {[cpu |-> cpu, panic |-> "SliceIndexOutOfRange"]}
    ELSE LET m1 == copy_from_slice(cpu.memory, LOAD_ADDRESS, program)
         IN  { [cpu |-> [cpu EXCEPT !.memory = w.memory],
                panic |-> IF w.panic THEN "ArithmeticOverflow" ELSE ""]
               : w \in mem_write_u16(m1, RESET_VECTOR, LOAD_ADDRESS) }

\* reset with a slip: index-Y cleared with the other registers.
reset_clears_y(cpu) ==
    { IF pc = OverflowPanic
      THEN [cpu |-> [cpu EXCEPT !.register_a = 0, !.register_x = 0,
                                !.register_y = 0, !.status = 0],
            panic |-> "ArithmeticOverflow"]
      ELSE [cpu |-> [cpu EXCEPT !.register_a = 0, !.register_x = 0,
                                !.register_y = 0, !.status = 0,
                                !.program_counter = pc],
            panic |-> ""]
      : pc \in mem_read_u16(cpu.memory, RESET_VECTOR) }

(***************************************************************************)
(* CPU::reset: register_y is not assigned.                                 *)
(***************************************************************************)
reset(cpu) ==
    { IF pc = OverflowPanic
      THEN [cpu |-> [cpu EXCEPT !.register_a = 0, !.register_x = 0, !.status = 0],
            panic |-> "ArithmeticOverflow"]
      ELSE [cpu |-> [cpu EXCEPT !.register_a = 0, !.register_x = 0, !.status = 0,
                                !.program_counter = pc],
            panic |-> ""]
      : pc \in mem_read_u16(cpu.memory, RESET_VECTOR) }

(***************************************************************************)
(* One iteration of the loop of CPU::run: the set of its outcomes          *)
(* [cpu, code, mode, addr, result].  result is "continue" (the loop goes   *)
(* on), "return" (the 0x00 arm) or the panic that ended the iteration.     *)
(***************************************************************************)
NoMode == "-"

StepResult(cpu, code, mode, addr, result) ==
    [cpu |-> cpu, code |-> code, mode |-> mode, addr |-> addr, result |-> result]

\* The match on the opcode byte: the handler's outcomes, where "return" and
\* "NotImplemented" stand for the 0x00 arm and the todo!() arm.
dispatch(cpu, code, mode) ==
    IF code \in LdaCodes THEN lda(cpu, mode)
    ELSE IF code \in StaCodes THEN sta(cpu, mode)
    ELSE IF code \in AdcCodes THEN adc(cpu, mode)
    ELSE IF code = TaxCode THEN tax(cpu)
    ELSE IF code = InxCode THEN inx(cpu)
    ELSE IF code = BrkCode THEN {Outcome(cpu, NoAddress, "return")}
    ELSE {Outcome(cpu, NoAddress, "NotImplemented")}

\* Lines 288-290: the counter is advanced past the operand bytes when the
\* handler left it alone.
advance(cpu, program_counter_state, len) ==
    IF program_counter_state = cpu.program_counter
    THEN { IF pc = OverflowPanic THEN [cpu |-> cpu, panic |-> "ArithmeticOverflow"]
           ELSE [cpu |-> [cpu EXCEPT !.program_counter = pc], panic |-> ""]
           : pc \in add_u16(cpu.program_counter, len - 1) }
    ELSE {[cpu |-> cpu, panic |-> ""]}

\* run_iteration with a slip: the metadata is looked up before the counter
\* is stepped over the opcode byte, so a failed lookup leaves the counter on
\* the byte.
run_iteration_lookup_before_advance(cpu) ==
    LET code == mem_read(cpu.memory, cpu.program_counter)
    IN  IF code \notin DOMAIN OPCODES_MAP
        THEN {StepResult(cpu, code, NoMode, NoAddress, "UnrecognizedOpcode")}
        ELSE UNION {
          IF pc1 = OverflowPanic
          THEN {StepResult(cpu, code, NoMode, NoAddress, "ArithmeticOverflow")}
          ELSE
            LET c1 == [cpu EXCEPT !.program_counter = pc1]
                program_counter_state == pc1
                opcode == OPCODES_MAP[code]
            IN  UNION {
                  IF o.panic # ""
                  THEN {StepResult(o.cpu, code, opcode.mode, o.addr, o.panic)}
                  ELSE { StepResult(f.cpu, code, opcode.mode, o.addr,
                                    IF f.panic # "" THEN f.panic ELSE "continue")
                         : f \in advance(o.cpu, program_counter_state, opcode.len) }
                  : o \in dispatch(c1, code, opcode.mode) }
          : pc1 \in add_u16(cpu.program_counter, 1) }

run_iteration(cpu) ==
    LET code == mem_read(cpu.memory, cpu.program_counter)
    IN  UNION {
          IF pc1 = OverflowPanic
          THEN {StepResult(cpu, code, NoMode, NoAddress, "ArithmeticOverflow")}
          ELSE
            LET c1 == [cpu EXCEPT !.program_counter = pc1]
                program_counter_state == pc1
            IN  IF code \notin DOMAIN OPCODES_MAP
                THEN {StepResult(c1, code, NoMode, NoAddress, "UnrecognizedOpcode")}
                ELSE
                  LET opcode == OPCODES_MAP[code]
                  IN  UNION {
                        IF o.panic # ""
                        THEN {StepResult(o.cpu, code, opcode.mode, o.addr, o.panic)}
                        ELSE { StepResult(f.cpu, code, opcode.mode, o.addr,
                                          IF f.panic # "" THEN f.panic ELSE "continue")
                               : f \in advance(o.cpu, program_counter_state, opcode.len) }
                        : o \in dispatch(c1, code, opcode.mode) }
          : pc1 \in add_u16(cpu.program_counter, 1) }

(***************************************************************************)
(* The state: the CPU, where the host and the run loop stand, the panic    *)
(* that ended the process (if any), and two records kept for stating       *)
(* properties: the CPU as it was when run was called (entry) and the last  *)
(* iteration of the loop (prev: the CPU before it and what it did).        *)
(***************************************************************************)
VARIABLES cpu, phase, fault, entry, prev

vars == <<cpu, phase, fault, entry, prev>>

NoCode == 0 - 1

NoPrev == [cpu |-> new, code |-> NoCode, mode |-> NoMode, addr |-> NoAddress,
           result |-> "none"]

(***************************************************************************)
(* What the host feeds the CPU with.                                       *)
(***************************************************************************)
MaxInx == 3

RECURSIVE Repeat(_, _)
Repeat(b, n) == IF n = 0 THEN <<>> ELSE <<b>> \o Repeat(b, n - 1)

ImmVals == {0, 5, 128, 192, 255}
OperandBytes == {16, 255}
OperandWords == {<<16, 32>>, <<255, 255>>}

OneByteOperandCodes == {c \in HandledCodes : OPCODES_MAP[c].len = 2}
TwoByteOperandCodes == {c \in HandledCodes : OPCODES_MAP[c].len = 3}

Programs ==
    {<<169, v, 0>> : v \in ImmVals}                         \* LDA #v, BRK
    \cup {<<169, v, 170, 232, 0>> : v \in ImmVals}          \* LDA #v, TAX, INX, BRK
    \cup {Repeat(232, n) \o <<0>> : n \in 0 .. MaxInx}      \* INX * n, BRK
    \cup {<<170, 0>>}                                       \* TAX, BRK
    \cup {<<c, b, 0>> : c \in OneByteOperandCodes, b \in OperandBytes}
    \cup {<<c, w[1], w[2], 0>> : c \in TwoByteOperandCodes, w \in OperandWords}
    \cup {<<234, 0>>, <<2, 0>>, <<16, 2, 0>>}               \* NOP; 0x02; BPL

AVals == {0, 127, 255}
XVals == {0, 2, 255}
YVals == {0, 2}
StatusVals == {0, 1}
PCVals == {65535}
PokeAddrs == {17, 255}
PokeVals == {0, 85}

Init ==
    /\ cpu = new
    /\ phase = "new"
    /\ fault = ""
    /\ entry = new
    /\ prev = NoPrev

(***************************************************************************)
(* The host: load, reset, writes to the public register fields and to      *)
(* memory, and the call of run.                                            *)
(***************************************************************************)
Load ==
    /\ phase = "new"
    /\ \E program \in Programs : \E r \in load(cpu, program) :
         /\ cpu' = r.cpu
         /\ phase' = IF r.panic = "" THEN "loaded" ELSE "panicked"
         /\ fault' = r.panic
    /\ UNCHANGED <<entry, prev>>

Reset ==
    /\ phase \in {"loaded", "ready"}
    /\ \E r \in reset(cpu) :
         /\ cpu' = r.cpu
         /\ phase' = IF r.panic = "" THEN "ready" ELSE "panicked"
         /\ fault' = r.panic
    /\ UNCHANGED <<entry, prev>>

SetA ==
    /\ phase = "ready"
    /\ \E v \in AVals : cpu' = [cpu EXCEPT !.register_a = v]
    /\ UNCHANGED <<phase, fault, entry, prev>>

SetX ==
    /\ phase = "ready"
    /\ \E v \in XVals : cpu' = [cpu EXCEPT !.register_x = v]
    /\ UNCHANGED <<phase, fault, entry, prev>>

SetY ==
    /\ phase = "ready"
    /\ \E v \in YVals : cpu' = [cpu EXCEPT !.register_y = v]
    /\ UNCHANGED <<phase, fault, entry, prev>>

SetStatus ==
    /\ phase = "ready"
    /\ \E v \in StatusVals : cpu' = [cpu EXCEPT !.status = v]
    /\ UNCHANGED <<phase, fault, entry, prev>>

SetPC ==
    /\ phase = "ready"
    /\ \E v \in PCVals : cpu' = [cpu EXCEPT !.program_counter = v]
    /\ UNCHANGED <<phase, fault, entry, prev>>

Poke ==
    /\ phase = "ready"
    /\ \E a \in PokeAddrs, v \in PokeVals :
         cpu' = [cpu EXCEPT !.memory = mem_write(cpu.memory, a, v)]
    /\ UNCHANGED <<phase, fault, entry, prev>>

Run ==
    /\ phase = "ready"
    /\ phase' = "running"
    /\ entry' = cpu
    /\ UNCHANGED <<cpu, fault, prev>>

(***************************************************************************)
(* The loop of CPU::run, one action per arm of its match and one for the   *)
(* failed lookup.                                                          *)
(***************************************************************************)
Fetched == mem_read(cpu.memory, cpu.program_counter)

Commit(r) ==
    /\ cpu' = r.cpu
    /\ phase' = IF r.result = "continue" THEN "running"
                ELSE IF r.result = "return" THEN "returned"
                ELSE "panicked"
    /\ fault' = IF r.result \in {"continue", "return"} THEN "" ELSE r.result
    /\ prev' = [cpu |-> cpu, code |-> r.code, mode |-> r.mode, addr |-> r.addr,
                result |-> r.result]
    /\ UNCHANGED entry

StepLda ==
    /\ phase = "running"
    /\ Fetched \in LdaCodes
    /\ \E r \in run_iteration(cpu) : Commit(r)

StepSta ==
    /\ phase = "running"
    /\ Fetched \in StaCodes
    /\ \E r \in run_iteration(cpu) : Commit(r)

StepAdc ==
    /\ phase = "running"
    /\ Fetched \in AdcCodes
    /\ \E r \in run_iteration(cpu) : Commit(r)

StepTax ==
    /\ phase = "running"
    /\ Fetched = TaxCode
    /\ \E r \in run_iteration(cpu) : Commit(r)

StepInx ==
    /\ phase = "running"
    /\ Fetched = InxCode
    /\ \E r \in run_iteration(cpu) : Commit(r)

StepBrk ==
    /\ phase = "running"
    /\ Fetched = BrkCode
    /\ \E r \in run_iteration(cpu) : Commit(r)

StepNotImplemented ==
    /\ phase = "running"
    /\ Fetched \in DOMAIN OPCODES_MAP \ (HandledCodes \cup {BrkCode})
    /\ \E r \in run_iteration(cpu) : Commit(r)

StepUnrecognized ==
    /\ phase = "running"
    /\ Fetched \notin DOMAIN OPCODES_MAP
    /\ \E r \in run_iteration(cpu) : Commit(r)

Step ==
    \/ StepLda
    \/ StepSta
    \/ StepAdc
    \/ StepTax
    \/ StepInx
    \/ StepBrk
    \/ StepNotImplemented
    \/ StepUnrecognized

Next ==
    \/ Load
    \/ Reset
    \/ SetA
    \/ SetX
    \/ SetY
    \/ SetStatus
    \/ SetPC
    \/ Poke
    \/ Run
    \/ Step

Spec == Init /\ [][Next]_vars

(***************************************************************************)
(* Focused specifications.  Each starts from CPU states the host can set   *)
(* up through load, reset and writes to registers and memory (Staged), at  *)
(* the moment run is called, and draws the values its instructions work    *)
(* on from larger sets than Spec can afford.                               *)
(***************************************************************************)

\* A memory the host has filled below LowTop with a pattern in which
\* neighbouring bytes, and bytes 256 apart, differ.
LowTop == 264

Background(k) ==
    LET f(a) == (a * 3 + (a \div 256) * 101 + k) % 256
        nonzero == {a \in 0 .. (LowTop - 1) : f(a) # 0}
    IN  [a \in nonzero |-> f(a)]

\* Pointers the host has written into page zero with mem_write: 0x0105 at
\* 0xFF/0x00 (a pointer that straddles the end of the page), 0x00FE at
\* 0x10/0x11 and 0xFFFF at 0x7F/0x80.
PointerBytes ==
    <<<<255, 5>>, <<0, 1>>, <<16, 254>>, <<17, 0>>, <<127, 255>>, <<128, 255>>>>

RECURSIVE PokeAll(_, _)
PokeAll(memory, pokes) ==
    IF pokes = <<>> THEN memory
    ELSE PokeAll(mem_write(memory, Head(pokes)[1], Head(pokes)[2]), Tail(pokes))

HostMemory(k) == PokeAll(Background(k), PointerBytes)

\* The CPU once the host has written `background`, loaded `program`, reset
\* and set the registers.
Staged(program, a, x, y, status, background) ==
    LET c0 == [new EXCEPT !.memory = background]
        c1 == (CHOOSE r \in load(c0, program) : TRUE).cpu
        c2 == (CHOOSE r \in reset(c1) : TRUE).cpu
    IN  [c2 EXCEPT !.register_a = a, !.register_x = x, !.register_y = y,
                   !.status = status]

Running(c) ==
    /\ cpu = c
    /\ phase = "running"
    /\ fault = ""
    /\ entry = c
    /\ prev = NoPrev

(***************************************************************************)
(* SpecAdc: one ADC.  Immediate mode over every accumulator and operand    *)
(* byte; the memory modes over a background memory.                        *)
(***************************************************************************)
AdcStatusVals == {0, 1, 254, 255}
AdcAVals == {0, 1, 127, 128, 255}
AdcIndexVals == {0, 2, 255}

InitAdc ==
    \/ \E a \in Byte, m \in Byte, s \in AdcStatusVals :
         Running(Staged(<<105, m, 0>>, a, 0, 0, s, ZeroMemory))
    \/ \E c \in AdcCodes \cap OneByteOperandCodes, b \in OperandBytes,
          a \in AdcAVals, x \in AdcIndexVals, y \in AdcIndexVals,
          s \in AdcStatusVals :
         Running(Staged(<<c, b, 0>>, a, x, y, s, HostMemory(7)))
    \/ \E c \in AdcCodes \cap TwoByteOperandCodes, w \in {<<16, 0>>, <<255, 0>>, <<255, 255>>},
          a \in AdcAVals, x \in AdcIndexVals, y \in AdcIndexVals,
          s \in AdcStatusVals :
         Running(Staged(<<c, w[1], w[2], 0>>, a, x, y, s, HostMemory(7)))

NextAdc ==
    \/ StepAdc
    \/ StepBrk

SpecAdc == InitAdc /\ [][NextAdc]_vars

(***************************************************************************)
(* SpecFlags: the three handlers that hand a register to                   *)
(* update_zero_and_negative_flags with the status byte as they found it,   *)
(* over every value and every status byte; and runs of INX.                *)
(***************************************************************************)
FlagsA == 90
FlagsX == 60
FlagsY == 165
InxStatusVals == {0, 1, 64, 125, 255}

InitFlags ==
    \/ \E v \in Byte, s \in Byte :
         Running(Staged(<<169, v, 0>>, FlagsA, FlagsX, FlagsY, s, ZeroMemory))
    \/ \E a \in Byte, s \in Byte :
         Running(Staged(<<170, 0>>, a, FlagsX, FlagsY, s, ZeroMemory))
    \/ \E x \in Byte, s \in Byte :
         Running(Staged(<<232, 0>>, FlagsA, x, FlagsY, s, ZeroMemory))
    \/ \E n \in 0 .. MaxInx, x \in Byte, s \in InxStatusVals :
         Running(Staged(Repeat(232, n) \o <<0>>, FlagsA, x, FlagsY, s, HostMemory(7)))

NextFlags ==
    \/ StepLda
    \/ StepTax
    \/ StepInx
    \/ StepBrk

SpecFlags == InitFlags /\ [][NextFlags]_vars

(***************************************************************************)
(* SpecMem: one LDA or STA in each of its addressing modes, over a         *)
(* background memory, with operands and index registers that make the      *)
(* 8-bit and the 16-bit sums wrap.                                         *)
(***************************************************************************)
MemOperandBytes == {0, 16, 127, 254, 255}
MemOperandWords ==
    {<<16, 0>>, <<255, 0>>, <<254, 1>>, <<0, 128>>, <<1, 128>>, <<255, 255>>}
MemIndexVals == {0, 1, 2, 255}
MemAVals == {0, 85, 128}
MemStatusVals == {0, 65, 195}

InitMem ==
    \/ \E c \in (LdaCodes \cup StaCodes) \cap OneByteOperandCodes,
          b \in MemOperandBytes, a \in MemAVals, x \in MemIndexVals,
          y \in MemIndexVals, s \in MemStatusVals, k \in {7, 250} :
         Running(Staged(<<c, b, 0>>, a, x, y, s, HostMemory(k)))
    \/ \E c \in (LdaCodes \cup StaCodes) \cap TwoByteOperandCodes,
          w \in MemOperandWords, a \in MemAVals, x \in MemIndexVals,
          y \in MemIndexVals, s \in MemStatusVals, k \in {7, 250} :
         Running(Staged(<<c, w[1], w[2], 0>>, a, x, y, s, HostMemory(k)))

NextMem ==
    \/ StepLda
    \/ StepSta
    \/ StepBrk

SpecMem == InitMem /\ [][NextMem]_vars

(***************************************************************************)
(* SpecResolve: get_operand_address applied once, in any mode, to a CPU    *)
(* whose counter stands on an operand: every first operand byte, index     *)
(* registers around the wrap points, a background memory for the pointers. *)
(***************************************************************************)
ResolveXVals == {0, 1, 2, 4, 127, 128, 254, 255}
ResolveYVals == {0, 2, 4, 255}
ResolveSecondBytes == {0, 255}

InitResolve ==
    /\ \E b \in Byte, b2 \in ResolveSecondBytes, x \in ResolveXVals,
          y \in ResolveYVals, k \in {7, 250} :
         LET c == Staged(<<165, b, b2>>, 0, x, y, 0, HostMemory(k))
         IN  cpu = [c EXCEPT !.program_counter = LOAD_ADDRESS + 1]
    /\ phase = "resolving"
    /\ fault = ""
    /\ entry = cpu
    /\ prev = NoPrev

Resolve ==
    /\ phase = "resolving"
    /\ \E mode \in AddressingMode : \E addr \in get_operand_address(cpu, mode) :
         prev' = [cpu |-> cpu, code |-> NoCode, mode |-> mode, addr |-> addr,
                  result |-> "resolved"]
    /\ phase' = "resolved"
    /\ UNCHANGED <<cpu, fault, entry>>

NextResolve ==
    \/ Resolve

SpecResolve == InitResolve /\ [][NextResolve]_vars

(***************************************************************************)
(* SpecSeq: the programs LDA #v, TAX, INX, BRK for every v, loaded and     *)
(* reset; the host then sets index-X to any byte and calls run.            *)
(***************************************************************************)
InitSeq ==
    /\ \E v \in Byte : cpu = Staged(<<169, v, 170, 232, 0>>, 0, 0, 0, 0, ZeroMemory)
    /\ phase = "ready"
    /\ fault = ""
    /\ entry = new
    /\ prev = NoPrev

SetXAny ==
    /\ phase = "ready"
    /\ \E v \in Byte : cpu' = [cpu EXCEPT !.register_x = v]
    /\ UNCHANGED <<phase, fault, entry, prev>>

NextSeq ==
    \/ SetXAny
    \/ Run
    \/ StepLda
    \/ StepTax
    \/ StepInx
    \/ StepBrk

SpecSeq == InitSeq /\ [][NextSeq]_vars

(***************************************************************************)
(* SpecRun: run called on CPUs the host has staged in two ways.  In the    *)
(* first a program sits at the load address: the programs of Spec and      *)
(* programs that store into their own later bytes.  In the second the      *)
(* host has written three bytes into the last three addresses of memory    *)
(* and three into the first three, and set the public program counter to   *)
(* one of the last three addresses.                                        *)
(***************************************************************************)
RunA == 85
RunY == 2
RunXVals == {0, 255}
RunStatusVals == {0, 48, 255}

\* LDA #b; STA target; INX; INX; LDA #7; BRK, which is at 0x8000 .. 0x8009:
\* the store goes to one of the bytes after the STA, or to page zero.
SelfProgram(b, target) ==
    <<169, b, 141, target % 256, target \div 256, 232, 232, 169, 7, 0>>

SelfBytes == {0, 2, 105, 169, 170, 232, 234}
SelfTargets == {16} \cup ((LOAD_ADDRESS + 5) .. (LOAD_ADDRESS + 9))
SelfPrograms == {SelfProgram(b, t) : b \in SelfBytes, t \in SelfTargets}

\* BRK, an unrecognised byte, NOP, BPL, INX, TAX, LDA #, LDA abs, STA abs,
\* ADC zero page.
TopBytes == {0, 2, 234, 16, 232, 170, 169, 173, 141, 101}
TopCounters == (U16_MAX - 2) .. U16_MAX
LowImage == <<232, 232, 0>>

Top(image, counter, x, status) ==
    LET c == Staged(<<0>>, RunA, x, RunY, status, ZeroMemory)
        m == PokeAll(c.memory,
                     <<<<U16_MAX - 2, image[1]>>, <<U16_MAX - 1, image[2]>>,
                       <<U16_MAX, image[3]>>,
                       <<0, LowImage[1]>>, <<1, LowImage[2]>>, <<2, LowImage[3]>>>>)
    IN  [c EXCEPT !.memory = m, !.program_counter = counter]

InitRun ==
    \/ \E p \in Programs \cup SelfPrograms, x \in RunXVals, s \in RunStatusVals :
         Running(Staged(p, RunA, x, RunY, s, HostMemory(7)))
    \/ \E b1 \in TopBytes, b2 \in TopBytes, b3 \in TopBytes, pc \in TopCounters,
          x \in RunXVals :
         Running(Top(<<b1, b2, b3>>, pc, x, 48))

NextRun ==
    \/ StepLda
    \/ StepSta
    \/ StepAdc
    \/ StepTax
    \/ StepInx
    \/ StepBrk
    \/ StepNotImplemented
    \/ StepUnrecognized

SpecRun == InitRun /\ [][NextRun]_vars

(***************************************************************************)
(* SpecHost: load and reset called by the host on a CPU in any state: the  *)
(* registers written through their public fields, memory written with     *)
(* mem_write.  A program is as long as the host makes it: empty, short,    *)
(* or reaching up to and past the reset vector and the end of memory.      *)
(***************************************************************************)
LoadSpace == U16_MAX + 1 - LOAD_ADDRESS

\* <<A, X, Y, status, program counter>>
HostRegisters ==
    {<<0, 0, 0, 0, 0>>, <<85, 255, 2, 255, 4660>>, <<128, 1, 165, 48, U16_MAX>>}

\* Bytes around the load address, around the reset vector (which holds
\* 0x1234 or 0xFFFF) and in page zero.
HostImages ==
    {ZeroMemory,
     PokeAll(ZeroMemory,
             <<<<16, 85>>, <<LOAD_ADDRESS - 1, 9>>, <<LOAD_ADDRESS, 1>>,
               <<LOAD_ADDRESS + 3, 3>>, <<RESET_VECTOR - 1, 4>>,
               <<RESET_VECTOR, 52>>, <<RESET_VECTOR + 1, 18>>,
               <<RESET_VECTOR + 2, 6>>, <<U16_MAX, 7>>>>),
     PokeAll(ZeroMemory,
             <<<<RESET_VECTOR, 255>>, <<RESET_VECTOR + 1, 255>>>>)}

HostCpus ==
    { [register_a |-> r[1], register_x |-> r[2], register_y |-> r[3],
       status |-> r[4], program_counter |-> r[5], memory |-> m]
      : r \in HostRegisters, m \in HostImages }

\* The byte at index i (from 0) of the program of pattern k: zero except at
\* the first bytes of the program, at every 4096th byte and at the bytes
\* loaded at 0xFFF8 and above, which hold INX (pattern 1) or bytes that
\* differ from their neighbours (pattern 2).
LoadMarked(i) == i < 3 \/ i % 4096 = 5 \/ i >= LoadSpace - 8

LoadByte(k, i) ==
    IF ~LoadMarked(i) THEN 0
    ELSE IF k = 1 THEN 232
    ELSE ((i * 7) % 255) + 1

LoadLens == {0, 1, 3} \cup ((LoadSpace - 5) .. (LoadSpace + 1))
LoadPrograms ==
    { [i \in 1 .. n |-> LoadByte(k, i - 1)] : n \in LoadLens, k \in 1 .. 2 }

InitHost ==
    /\ cpu \in HostCpus
    /\ phase = "host"
    /\ fault = ""
    /\ entry = cpu
    /\ prev = NoPrev

HostLoad ==
    /\ phase = "host"
    /\ \E program \in LoadPrograms : \E r \in load(cpu, program) :
         /\ cpu' = r.cpu
         /\ phase' = IF r.panic = "" THEN "loaded" ELSE "panicked"
         /\ fault' = r.panic
         /\ prev' = [cpu |-> cpu, code |-> NoCode, mode |-> NoMode,
                     addr |-> NoAddress, result |-> "load", program |-> program]
    /\ UNCHANGED entry

HostReset ==
    /\ phase \in {"host", "loaded"}
    /\ \E r \in reset(cpu) :
         /\ cpu' = r.cpu
         /\ phase' = IF r.panic = "" THEN "reset" ELSE "panicked"
         /\ fault' = r.panic
         /\ prev' = [cpu |-> cpu, code |-> NoCode, mode |-> NoMode,
                     addr |-> NoAddress, result |-> "reset"]
    /\ UNCHANGED entry

NextHost ==
    \/ HostLoad
    \/ HostReset

SpecHost == InitHost /\ [][NextHost]_vars

(***************************************************************************)
(* SpecWord: the 16-bit memory helpers called on a host-written memory:    *)
(* mem_read_u16 alone, and mem_write_u16 followed by mem_read_u16 of the   *)
(* same address.  Both compute pos + 1; when the write has got past it     *)
(* (the build wraps), so does the read that follows.                       *)
(***************************************************************************)
WordAddrs ==
    {0, U8_MAX, U8_MAX + 1, LOAD_ADDRESS - 1, RESET_VECTOR - 1, RESET_VECTOR,
     U16_MAX - 1, U16_MAX}
WordVals == {0, 1, 256, 4660, 33023, U16_MAX}

InitWord ==
    /\ \E m \in HostImages : cpu = [new EXCEPT !.memory = m]
    /\ phase = "host"
    /\ fault = ""
    /\ entry = cpu
    /\ prev = NoPrev

WordCall(name, pos, data, read) ==
    [cpu |-> cpu, code |-> NoCode, mode |-> NoMode, addr |-> pos,
     result |-> name, word |-> data, read |-> read]

Read16 ==
    /\ phase = "host"
    /\ \E pos \in WordAddrs : \E r \in mem_read_u16(cpu.memory, pos) :
         /\ phase' = IF r = OverflowPanic THEN "panicked" ELSE "read"
         /\ fault' = IF r = OverflowPanic THEN "ArithmeticOverflow" ELSE ""
         /\ prev' = WordCall("read16", pos, NoCode, r)
    /\ UNCHANGED <<cpu, entry>>

Write16Read16 ==
    /\ phase = "host"
    /\ \E pos \in WordAddrs, data \in WordVals :
         \E w \in mem_write_u16(cpu.memory, pos, data) :
           /\ cpu' = [cpu EXCEPT !.memory = w.memory]
           /\ IF w.panic
              THEN /\ phase' = "panicked"
                   /\ fault' = "ArithmeticOverflow"
                   /\ prev' = WordCall("write16", pos, data, OverflowPanic)
              ELSE \E r \in mem_read_u16(w.memory, pos) \ {OverflowPanic} :
                     /\ phase' = "read"
                     /\ fault' = ""
                     /\ prev' = WordCall("write16read16", pos, data, r)
    /\ UNCHANGED entry

NextWord ==
    \/ Read16
    \/ Write16Read16

SpecWord == InitWord /\ [][NextWord]_vars

(***************************************************************************)
(* Properties.  They speak of the last iteration of the run loop through   *)
(* prev: the CPU before it (prev.cpu), the opcode byte it fetched          *)
(* (prev.code), the operand address its handler resolved (prev.addr, an    *)
(* address only when the handler got past the resolution and so did its    *)
(* work) and the CPU after it (cpu).                                       *)
(***************************************************************************)
Flag(status, mask) == (status \div mask) % 2 = 1
Sign(v) == v \div 128

HandlerRan(codes) == prev.code \in codes /\ prev.result \in {"continue", "ArithmeticOverflow"}
                     /\ (prev.mode = "NoneAddressing" \/ prev.addr >= 0)

AdcOperand == mem_read(prev.cpu.memory, prev.addr)
AdcCarryIn == IF Flag(prev.cpu.status, STATUS_CARRY) THEN 1 ELSE 0
AdcSum == prev.cpu.register_a + AdcOperand + AdcCarryIn

\* C1: after ADC the accumulator is (A + M + c) mod 256, where A is the
\* accumulator before, M the byte at the resolved address and c the carry
\* before; Carry is set iff A + M + c > 255 and cleared otherwise.
C1_AdcSumAndCarry ==
    HandlerRan(AdcCodes) =>
        /\ cpu.register_a = AdcSum % 256
        /\ Flag(cpu.status, STATUS_CARRY) <=> (AdcSum > 255)

\* C1 witness: an ADC whose first addition (operand + carry) overflows:
\* M = 0xFF with carry in, which leaves the accumulator as it was and sets
\* Carry; the operand was the immediate byte.
C1_Witness ==
    /\ HandlerRan(AdcCodes)
    /\ prev.mode = "Immediate"
    /\ AdcOperand = 255
    /\ AdcCarryIn = 1
    /\ prev.cpu.register_a = 5
    /\ cpu.register_a = 5
    /\ Flag(cpu.status, STATUS_CARRY)

\* C2: after ADC Overflow is set iff the sign bit of the result differs
\* from the sign bit of the operand and from the sign bit of the
\* accumulator before the update, and is cleared otherwise, whatever Carry
\* and Overflow were before.
C2_AdcOverflow ==
    HandlerRan(AdcCodes) =>
        (Flag(cpu.status, STATUS_OVERFLOW) <=>
            /\ Sign(cpu.register_a) # Sign(AdcOperand)
            /\ Sign(cpu.register_a) # Sign(prev.cpu.register_a))

\* C2 witness: 0x7F + 0x10 with no carry in gives 0x8F with Overflow and
\* Negative set and Carry clear, from the status byte 0xFE.
C2_Witness ==
    /\ HandlerRan(AdcCodes)
    /\ prev.cpu.register_a = 127
    /\ AdcOperand = 16
    /\ prev.cpu.status = 254
    /\ cpu.register_a = 143
    /\ Flag(cpu.status, STATUS_OVERFLOW)
    /\ Flag(cpu.status, STATUS_NEGATIVE)
    /\ ~Flag(cpu.status, STATUS_CARRY)

\* The value a handler handed to update_zero_and_negative_flags.
FlagsValue == IF prev.code \in LdaCodes THEN cpu.register_a ELSE cpu.register_x
FlagsCodes == LdaCodes \cup {TaxCode, InxCode}
OtherFlags ==
    {STATUS_CARRY, STATUS_INTERRUPT_DISABLE, STATUS_DECIMAL_MODE, STATUS_BREAK,
     STATUS_BREAK2, STATUS_OVERFLOW}

\* C3: after update_zero_and_negative_flags(v), called by LDA, TAX or INX
\* with any status byte, Zero is set iff v = 0, Negative iff bit 7 of v is
\* 1, and the other six status bits are as they were.
C3_UpdateZeroAndNegative ==
    HandlerRan(FlagsCodes) =>
        /\ Flag(cpu.status, STATUS_ZERO) <=> (FlagsValue = 0)
        /\ Flag(cpu.status, STATUS_NEGATIVE) <=> (FlagsValue >= 128)
        /\ \A m \in OtherFlags : Flag(cpu.status, m) <=> Flag(prev.cpu.status, m)

\* C3 witness: the value 0x80 handed over with Zero set, Negative clear and
\* some of the other bits set: Zero is cleared, Negative set.
C3_Witness ==
    /\ HandlerRan(FlagsCodes)
    /\ FlagsValue = 128
    /\ prev.cpu.status = 2 + 1 + 16 + 64
    /\ cpu.status = 128 + 1 + 16 + 64

(***************************************************************************)
(* The effective address of an instruction whose opcode byte stands at     *)
(* c.program_counter, by addressing mode: the byte(s) that follow the      *)
(* opcode, the index registers and, for the indirect modes, the pointer    *)
(* in page zero.                                                           *)
(***************************************************************************)
OperandByte(c) == mem_read(c.memory, c.program_counter + 1)
OperandWord(c) ==
    mem_read(c.memory, c.program_counter + 1)
    + 256 * mem_read(c.memory, c.program_counter + 2)
PageZeroWord(c, p) ==
    mem_read(c.memory, p) + 256 * mem_read(c.memory, (p + 1) % 256)

EffectiveAddress(c, mode) ==
    CASE mode = "Immediate" -> c.program_counter + 1
      [] mode = "ZeroPage" -> OperandByte(c)
      [] mode = "ZeroPage_X" -> (OperandByte(c) + c.register_x) % 256
      [] mode = "ZeroPage_Y" -> (OperandByte(c) + c.register_y) % 256
      [] mode = "Absolute" -> OperandWord(c)
      [] mode = "Absolute_X" -> (OperandWord(c) + c.register_x) % 65536
      [] mode = "Absolute_Y" -> (OperandWord(c) + c.register_y) % 65536
      [] mode = "Indirect_X" ->
            PageZeroWord(c, (OperandByte(c) + c.register_x) % 256)
      [] mode = "Indirect_Y" ->
            (PageZeroWord(c, OperandByte(c)) + c.register_y) % 65536

LdaModes ==
    (169 :> "Immediate") @@ (165 :> "ZeroPage") @@ (181 :> "ZeroPage_X") @@
    (173 :> "Absolute") @@ (189 :> "Absolute_X") @@ (185 :> "Absolute_Y") @@
    (161 :> "Indirect_X") @@ (177 :> "Indirect_Y")

StaModes ==
    (133 :> "ZeroPage") @@ (149 :> "ZeroPage_X") @@ (141 :> "Absolute") @@
    (157 :> "Absolute_X") @@ (153 :> "Absolute_Y") @@ (129 :> "Indirect_X") @@
    (145 :> "Indirect_Y")

\* C4: after an LDA, by any of its eight opcode bytes, the accumulator is
\* the byte that memory held at the effective address of the byte's mode,
\* Zero and Negative reflect it, and memory, index-X, index-Y, Carry and
\* Overflow are as before.
C4_Lda ==
    HandlerRan(LdaCodes) =>
        LET ea == EffectiveAddress(prev.cpu, LdaModes[prev.code])
        IN  /\ cpu.register_a = mem_read(prev.cpu.memory, ea)
            /\ Flag(cpu.status, STATUS_ZERO) <=> (cpu.register_a = 0)
            /\ Flag(cpu.status, STATUS_NEGATIVE) <=> (cpu.register_a >= 128)
            /\ cpu.memory = prev.cpu.memory
            /\ cpu.register_x = prev.cpu.register_x
            /\ cpu.register_y = prev.cpu.register_y
            /\ Flag(cpu.status, STATUS_CARRY) <=> Flag(prev.cpu.status, STATUS_CARRY)
            /\ Flag(cpu.status, STATUS_OVERFLOW) <=> Flag(prev.cpu.status, STATUS_OVERFLOW)

\* C4 witness: LDA (0xFE,X) with X = 1: the pointer at 0xFF/0x00 holds
\* 0x0105, and the accumulator, which held something else, now holds the
\* non-zero byte at 0x0105; Carry and Overflow were set and still are.
C4_Witness ==
    /\ HandlerRan(LdaCodes)
    /\ prev.code = 161
    /\ OperandByte(prev.cpu) = 254
    /\ prev.cpu.register_x = 1
    /\ cpu.register_a = mem_read(prev.cpu.memory, 261)
    /\ cpu.register_a # 0
    /\ cpu.register_a # prev.cpu.register_a
    /\ Flag(cpu.status, STATUS_CARRY)
    /\ Flag(cpu.status, STATUS_OVERFLOW)

\* C5: after an STA, by any of its seven opcode bytes, memory holds the
\* accumulator at the effective address of the byte's mode and is
\* unchanged everywhere else; status, accumulator, index-X and index-Y are
\* unchanged.
C5_Sta ==
    HandlerRan(StaCodes) =>
        LET ea == EffectiveAddress(prev.cpu, StaModes[prev.code])
        IN  /\ \A a \in DOMAIN cpu.memory \cup DOMAIN prev.cpu.memory \cup {ea} :
                  mem_read(cpu.memory, a) =
                      IF a = ea THEN prev.cpu.register_a
                      ELSE mem_read(prev.cpu.memory, a)
            /\ cpu.status = prev.cpu.status
            /\ cpu.register_a = prev.cpu.register_a
            /\ cpu.register_x = prev.cpu.register_x
            /\ cpu.register_y = prev.cpu.register_y

\* C5 witness: STA $FFFF,X with X = 2 and the accumulator 0x55: the sum
\* wraps at 16 bits and address 0x0001, which held another byte, now holds
\* 0x55.
C5_Witness ==
    /\ HandlerRan(StaCodes)
    /\ prev.code = 157
    /\ OperandWord(prev.cpu) = 65535
    /\ prev.cpu.register_x = 2
    /\ prev.cpu.register_a = 85
    /\ mem_read(prev.cpu.memory, 1) # 85
    /\ mem_read(cpu.memory, 1) = 85

\* n INX bytes stand at the entry counter in the memory run started with,
\* and run has executed exactly those n instructions.
InxRun(n) ==
    /\ phase \in {"running", "returned"}
    /\ \A i \in 0 .. (n - 1) :
          mem_read(entry.memory, entry.program_counter + i) = InxCode
    /\ cpu.program_counter =
          entry.program_counter + n + (IF phase = "returned" THEN 1 ELSE 0)
    /\ phase = "returned" => prev.code = BrkCode

\* C6: one INX sets index-X to (X + 1) mod 256 and Zero/Negative from the
\* new X, leaving accumulator, index-Y, memory, Carry and Overflow alone;
\* n INX in a row from X0 end with X = (X0 + n) mod 256.
C6_Inx ==
    /\ HandlerRan({InxCode}) =>
          /\ cpu.register_x = (prev.cpu.register_x + 1) % 256
          /\ Flag(cpu.status, STATUS_ZERO) <=> (cpu.register_x = 0)
          /\ Flag(cpu.status, STATUS_NEGATIVE) <=> (cpu.register_x >= 128)
          /\ cpu.register_a = prev.cpu.register_a
          /\ cpu.register_y = prev.cpu.register_y
          /\ cpu.memory = prev.cpu.memory
          /\ Flag(cpu.status, STATUS_CARRY) <=> Flag(prev.cpu.status, STATUS_CARRY)
          /\ Flag(cpu.status, STATUS_OVERFLOW) <=> Flag(prev.cpu.status, STATUS_OVERFLOW)
    /\ \A n \in 0 .. (MaxInx + 1) :
          InxRun(n) =>
              /\ cpu.register_x = (entry.register_x + n) % 256
              /\ cpu.register_a = entry.register_a
              /\ cpu.register_y = entry.register_y
              /\ cpu.memory = entry.memory
              /\ Flag(cpu.status, STATUS_CARRY) <=> Flag(entry.status, STATUS_CARRY)
              /\ Flag(cpu.status, STATUS_OVERFLOW) <=> Flag(entry.status, STATUS_OVERFLOW)

\* C6 witness: the second of three INX, started with X = 0xFE: it takes X
\* from 0xFF to 0x00 and sets Zero; Carry and Overflow were set at entry.
C6_Witness ==
    /\ HandlerRan({InxCode})
    /\ InxRun(2)
    /\ mem_read(entry.memory, entry.program_counter + 2) = InxCode
    /\ entry.register_x = 254
    /\ entry.status = 125
    /\ prev.cpu.register_x = 255
    /\ cpu.register_x = 0
    /\ Flag(cpu.status, STATUS_ZERO)
    /\ ~Flag(cpu.status, STATUS_NEGATIVE)

\* The program LDA #v, TAX, INX, BRK stands at the load address in the
\* memory run started with, and run started there.
SeqProgram ==
    /\ entry.program_counter = LOAD_ADDRESS
    /\ mem_read(entry.memory, LOAD_ADDRESS) = 169
    /\ mem_read(entry.memory, LOAD_ADDRESS + 2) = TaxCode
    /\ mem_read(entry.memory, LOAD_ADDRESS + 3) = InxCode
    /\ mem_read(entry.memory, LOAD_ADDRESS + 4) = BrkCode

SeqValue == mem_read(entry.memory, LOAD_ADDRESS + 1)

\* C7: TAX copies the accumulator into index-X, leaves the accumulator
\* alone and sets Zero/Negative from X; and run of LDA #v, TAX, INX, BRK
\* returns with accumulator v and index-X (v + 1) mod 256, whatever
\* index-X the host had set after reset.
C7_TaxAndSequence ==
    /\ HandlerRan({TaxCode}) =>
          /\ cpu.register_x = prev.cpu.register_a
          /\ cpu.register_a = prev.cpu.register_a
          /\ Flag(cpu.status, STATUS_ZERO) <=> (cpu.register_x = 0)
          /\ Flag(cpu.status, STATUS_NEGATIVE) <=> (cpu.register_x >= 128)
    /\ (phase = "returned" /\ SeqProgram) =>
          /\ cpu.register_a = SeqValue
          /\ cpu.register_x = (SeqValue + 1) % 256

\* C7 witness: LDA #0xC0, TAX, INX, BRK has returned with X = 0xC1 and
\* A = 0xC0 from a start with X = 0xFF.
C7_Witness ==
    /\ phase = "returned"
    /\ SeqProgram
    /\ SeqValue = 192
    /\ entry.register_x = 255
    /\ cpu.register_x = 193
    /\ cpu.register_a = 192

\* The byte the resolver found at the counter.
ResolvedOperand == mem_read(prev.cpu.memory, prev.cpu.program_counter)
Resolved(mode) == prev.result = "resolved" /\ prev.mode = mode

\* C8: ZeroPage,X and ZeroPage,Y resolve to (b + i) mod 256, b the byte at
\* the counter and i the index register: an address of page zero.
C8_ZeroPageIndexed ==
    /\ Resolved("ZeroPage_X") =>
          /\ prev.addr = (ResolvedOperand + prev.cpu.register_x) % 256
          /\ prev.addr \in 0 .. 255
    /\ Resolved("ZeroPage_Y") =>
          /\ prev.addr = (ResolvedOperand + prev.cpu.register_y) % 256
          /\ prev.addr \in 0 .. 255

\* C8 witness: b = 0xFF and X = 0x02 resolve to 0x0001.
C8_Witness ==
    /\ Resolved("ZeroPage_X")
    /\ ResolvedOperand = 255
    /\ prev.cpu.register_x = 2
    /\ prev.addr = 1

\* C9: Indirect,X resolves to the word whose low byte is memory[p] and
\* whose high byte is memory[(p + 1) mod 256], p = (b + x) mod 256.
C9_IndirectX ==
    Resolved("Indirect_X") =>
        LET ptr == (ResolvedOperand + prev.cpu.register_x) % 256
        IN  prev.addr = mem_read(prev.cpu.memory, ptr)
                        + 256 * mem_read(prev.cpu.memory, (ptr + 1) % 256)

\* C9 witness: b = 0xFD and X = 2 give p = 0xFF; the low byte 0x05 is at
\* 0xFF, the high byte 0x01 at 0x00 (0x0100 holds another byte), and the
\* address is 0x0105.
C9_Witness ==
    /\ Resolved("Indirect_X")
    /\ ResolvedOperand = 253
    /\ prev.cpu.register_x = 2
    /\ mem_read(prev.cpu.memory, 255) = 5
    /\ mem_read(prev.cpu.memory, 0) = 1
    /\ mem_read(prev.cpu.memory, 256) # 1
    /\ prev.addr = 261

\* C10: Indirect,Y resolves to (base + y) mod 65536, base the word whose
\* low byte is memory[p] and whose high byte is memory[(p + 1) mod 256],
\* p the byte at the counter.
C10_IndirectY ==
    Resolved("Indirect_Y") =>
        LET ptr  == ResolvedOperand
            base == mem_read(prev.cpu.memory, ptr)
                    + 256 * mem_read(prev.cpu.memory, (ptr + 1) % 256)
        IN  prev.addr = (base + prev.cpu.register_y) % 65536

\* C10 witness: the pointer at 0x7F/0x80 holds 0xFFFF and Y = 2: the sum
\* wraps at 16 bits to 0x0001.
C10_Witness ==
    /\ Resolved("Indirect_Y")
    /\ ResolvedOperand = 127
    /\ mem_read(prev.cpu.memory, 127) = 255
    /\ mem_read(prev.cpu.memory, 128) = 255
    /\ prev.cpu.register_y = 2
    /\ prev.addr = 1

(***************************************************************************)
(* The dispatcher.  A step is an iteration of the loop of run (prev.result *)
(* is then not "none"); p is the address it fetched its opcode from.       *)
(***************************************************************************)
Stepped == prev.result \in {"continue", "return", "ArithmeticOverflow",
                            "UnrecognizedOpcode", "NotImplemented",
                            "UnsupportedAddressingMode"}
FetchAddress == prev.cpu.program_counter

SameRegistersAndMemory(c, d) ==
    /\ c.register_a = d.register_a
    /\ c.register_x = d.register_x
    /\ c.register_y = d.register_y
    /\ c.status = d.status
    /\ c.memory = d.memory

\* C11: every step that executes a handled non-BRK opcode found at address
\* p, of metadata length L, goes on to a next step with the program counter
\* at p + L.
C11_CounterAdvance ==
    (Stepped /\ prev.code \in HandledCodes) =>
        /\ prev.result = "continue"
        /\ cpu.program_counter = FetchAddress + OPCODES_MAP[prev.code].len

\* C12: when the opcode fetched is 0x00, run returns with the accumulator,
\* index-X, index-Y, the status byte and memory as they were before the
\* fetch, and the program counter at the address of the BRK byte plus one.
C12_BrkFrame ==
    (Stepped /\ prev.code = BrkCode) =>
        /\ prev.result = "return"
        /\ phase = "returned"
        /\ SameRegistersAndMemory(cpu, prev.cpu)
        /\ cpu.program_counter = FetchAddress + 1

Unrecognized == Stepped /\ prev.code \notin DOMAIN OPCODES_MAP

\* C13: a fetched byte that is absent from the opcode metadata halts run
\* with A, X, Y, status and memory as they were when the byte was fetched,
\* and with the program counter one past the byte (mod 2^16): the fetch has
\* advanced it before the lookup fails with UnrecognizedOpcode.  At 0xFFFF
\* that advance can itself fail first, and then the counter has not moved.
C13_UnrecognizedKeepsAllButCounter ==
    Unrecognized =>
        /\ phase = "panicked"
        /\ SameRegistersAndMemory(cpu, prev.cpu)
        /\ \/ /\ fault = "UnrecognizedOpcode"
              /\ cpu.program_counter = (FetchAddress + 1) % (U16_MAX + 1)
           \/ /\ fault = "ArithmeticOverflow"
              /\ FetchAddress = U16_MAX
              /\ cpu.program_counter = FetchAddress

\* C13 witness: the byte 0x02 at the load address, fetched with X = 0xFF and
\* every status bit set, halts run with the counter at 0x8001.
C13_Witness ==
    /\ Unrecognized
    /\ fault = "UnrecognizedOpcode"
    /\ prev.code = 2
    /\ FetchAddress = LOAD_ADDRESS
    /\ cpu.program_counter = LOAD_ADDRESS + 1
    /\ cpu.register_x = 255
    /\ cpu.status = 255

\* C13 as stated: the halt is UnrecognizedOpcode and no register, the
\* program counter included, nor any memory byte differs from its value
\* when the byte was fetched.
C13_UnrecognizedKeepsAllRegisters ==
    Unrecognized =>
        /\ fault = "UnrecognizedOpcode"
        /\ SameRegistersAndMemory(cpu, prev.cpu)
        /\ cpu.program_counter = FetchAddress

Recognized == prev.code \in DOMAIN OPCODES_MAP
HasArm == prev.code \in HandledCodes \cup {BrkCode}

\* C14: for every fetched opcode byte run halts with UnrecognizedOpcode iff
\* the byte is absent from the metadata, and with NotImplemented iff it is
\* present but is none of the 25 handled bytes nor 0x00; the two never
\* coincide and neither changes A, X, Y, status or memory.
C14_HaltKinds ==
    Stepped =>
        /\ (fault = "UnrecognizedOpcode") <=> ~Recognized
        /\ (fault = "NotImplemented") <=> (Recognized /\ ~HasArm)
        /\ fault \in {"UnrecognizedOpcode", "NotImplemented"} =>
               SameRegistersAndMemory(cpu, prev.cpu)

(***************************************************************************)
(* The host's calls of load and reset (SpecHost).                          *)
(***************************************************************************)
Loaded == prev.result = "load"
LoadedAt(i) == LOAD_ADDRESS + i - 1
VectorBytes == {RESET_VECTOR, RESET_VECTOR + 1}
ProgramArea == {LoadedAt(i) : i \in 1 .. Len(prev.program)}

SameRegisters(c, d) ==
    /\ c.register_a = d.register_a
    /\ c.register_x = d.register_x
    /\ c.register_y = d.register_y
    /\ c.status = d.status
    /\ c.program_counter = d.program_counter

VectorHoldsLoadAddress ==
    /\ mem_read(cpu.memory, RESET_VECTOR) = LOAD_ADDRESS % 256
    /\ mem_read(cpu.memory, RESET_VECTOR + 1) = LOAD_ADDRESS \div 256

OtherMemoryKept ==
    \A a \in (DOMAIN cpu.memory \cup DOMAIN prev.cpu.memory) \ (ProgramArea \cup VectorBytes) :
        mem_read(cpu.memory, a) = mem_read(prev.cpu.memory, a)

\* C15: after load of a program of n <= 0x8000 bytes the reset vector holds
\* 0x00, 0x80, every program byte i whose address 0x8000 + i is not one of
\* the two vector bytes is readable at that address (the vector is written
\* after the copy and replaces program bytes 0x7FFC and 0x7FFD of a program
\* that long), and all other memory and all registers are unchanged.
C15_Load ==
    (Loaded /\ Len(prev.program) <= LoadSpace) =>
        /\ fault = ""
        /\ VectorHoldsLoadAddress
        /\ \A i \in 1 .. Len(prev.program) :
               LoadedAt(i) \notin VectorBytes =>
                   mem_read(cpu.memory, LoadedAt(i)) = prev.program[i]
        /\ OtherMemoryKept
        /\ SameRegisters(cpu, prev.cpu)

\* C15 witness: a program of 0x8000 bytes, with non-zero bytes where the
\* vector goes, loaded into a CPU whose registers and memory the host had
\* written: its last byte is readable at 0xFFFF, 0xFFFC reads 0x00 and the
\* byte the host wrote below the load address is still there.
C15_Witness ==
    /\ Loaded
    /\ fault = ""
    /\ Len(prev.program) = LoadSpace
    /\ prev.program[RESET_VECTOR - LOAD_ADDRESS + 1] # 0
    /\ mem_read(cpu.memory, RESET_VECTOR) = 0
    /\ mem_read(cpu.memory, U16_MAX) = prev.program[LoadSpace]
    /\ prev.program[LoadSpace] # mem_read(prev.cpu.memory, U16_MAX)
    /\ mem_read(cpu.memory, LOAD_ADDRESS - 1) = 9
    /\ cpu.register_a = 85
    /\ cpu.program_counter = 4660

\* C15 as stated: after load of a program of n <= 0x8000 bytes every
\* program byte i is readable at 0x8000 + i and the reset vector holds
\* 0x00, 0x80; all other memory and all registers are unchanged.
C15_LoadEveryByte ==
    (Loaded /\ Len(prev.program) <= LoadSpace) =>
        /\ fault = ""
        /\ VectorHoldsLoadAddress
        /\ \A i \in 1 .. Len(prev.program) :
               mem_read(cpu.memory, LoadedAt(i)) = prev.program[i]
        /\ OtherMemoryKept
        /\ SameRegisters(cpu, prev.cpu)

WasReset == prev.result = "reset"

\* C16: after reset, from any CPU state, the accumulator, index-X and
\* status are 0 and the program counter is the little-endian word stored at
\* 0xFFFC/0xFFFD; index-Y and every memory byte are as before the reset.
C16_Reset ==
    WasReset =>
        /\ fault = ""
        /\ cpu.register_a = 0
        /\ cpu.register_x = 0
        /\ cpu.status = 0
        /\ cpu.program_counter =
               mem_read(prev.cpu.memory, RESET_VECTOR)
               + 256 * mem_read(prev.cpu.memory, RESET_VECTOR + 1)
        /\ cpu.register_y = prev.cpu.register_y
        /\ cpu.memory = prev.cpu.memory

\* C16 witness: reset after load, on a CPU whose registers the host had
\* written (A = 0x55, X = 0xFF, Y = 2, status 0xFF, counter 0x1234) and whose
\* vector had held 0x1234: the counter is 0x8000 and Y is still 2.
C16_Witness ==
    /\ WasReset
    /\ phase = "reset"
    /\ prev.cpu.register_a = 85
    /\ prev.cpu.register_x = 255
    /\ prev.cpu.status = 255
    /\ prev.cpu.program_counter = 4660
    /\ entry.program_counter = 4660
    /\ mem_read(entry.memory, RESET_VECTOR) = 52
    /\ cpu.program_counter = LOAD_ADDRESS
    /\ cpu.register_y = 2
    /\ cpu.register_a = 0

\* C17: run stops only by executing BRK or by one of the three fatal
\* conditions UnrecognizedOpcode, NotImplemented and
\* UnsupportedAddressingMode, whatever the memory contents and the counter.
C17_HaltingReasons ==
    /\ phase = "returned" => (fault = "" /\ prev.code = BrkCode)
    /\ (Stepped /\ phase = "panicked") =>
           fault \in {"UnrecognizedOpcode", "NotImplemented",
                      "UnsupportedAddressingMode"}

\* C18: for every address a and word w, mem_write_u16(a, w) followed by
\* mem_read_u16(a) returns w, with the low byte stored at a and the high
\* byte at a + 1, and neither call fails.
C18_WordRoundTrip ==
    /\ prev.result \in {"read16", "write16", "write16read16"} => fault = ""
    /\ prev.result = "write16read16" =>
           /\ prev.read = prev.word
           /\ mem_read(cpu.memory, prev.addr) = prev.word % 256
           /\ prev.addr + 1 \in Word
           /\ mem_read(cpu.memory, prev.addr + 1) = prev.word \div 256

(***************************************************************************)
(* Runs of the programs LDA #b; STA target; ... (SelfProgram), told from   *)
(* the memory run was entered with.                                        *)
(***************************************************************************)
SelfRun ==
    /\ entry.program_counter = LOAD_ADDRESS
    /\ mem_read(entry.memory, LOAD_ADDRESS) = 169
    /\ mem_read(entry.memory, LOAD_ADDRESS + 2) = 141
StoredByte == mem_read(entry.memory, LOAD_ADDRESS + 1)
StoreTarget ==
    mem_read(entry.memory, LOAD_ADDRESS + 3)
    + 256 * mem_read(entry.memory, LOAD_ADDRESS + 4)
StoreDone == FetchAddress > LOAD_ADDRESS + 2

\* C19: once the STA of such a program has stored b at its target, a step
\* that fetches its opcode at the target decodes b, and an LDA whose operand
\* is at the target loads b: the byte stored, not the byte load had placed
\* there.
C19_FetchSeesStore ==
    (Stepped /\ SelfRun /\ StoreDone) =>
        /\ FetchAddress = StoreTarget => prev.code = StoredByte
        /\ (prev.code \in LdaCodes /\ prev.addr = StoreTarget
            /\ prev.result = "continue") => cpu.register_a = StoredByte

\* C19 witness: the STA has stored 0x00 over the second INX, at 0x8006; run
\* fetched it there as BRK and returned, the INX before it having run once.
C19_Witness ==
    /\ Stepped
    /\ SelfRun
    /\ StoreDone
    /\ StoredByte = 0
    /\ StoreTarget = LOAD_ADDRESS + 6
    /\ mem_read(entry.memory, StoreTarget) = InxCode
    /\ FetchAddress = StoreTarget
    /\ prev.code = BrkCode
    /\ phase = "returned"
    /\ cpu.register_x = (entry.register_x + 1) % 256

\* C20: the program counter strictly increases, by the instruction length,
\* at every step after which run goes on, so that it never comes back to or
\* below the address run began at: the variant by which every run halts
\* within 65536 instructions.
C20_CounterStrictlyIncreases ==
    (prev.result = "continue") =>
        /\ phase = "running"
        /\ cpu.program_counter > FetchAddress
        /\ cpu.program_counter > entry.program_counter
        /\ cpu.program_counter - FetchAddress = OPCODES_MAP[prev.code].len

====
